---------------------------- MODULE Spec2Model ----------------------------
(***************************************************************************)
(* Model of src/app/shelters/page.tsx (SheltersPage): the component's      *)
(* state, the two mount effects, fetchShelters with its per-profile        *)
(* fan-out and Promise.all join, the user's edits of the search query and  *)
(* of the filter form, and the filteredShelters derivation.                *)
(*                                                                         *)
(* Conventions.  A JavaScript value that may be null/undefined is a set    *)
(* with at most one element: {} is null, {v} is v.  Text that the code     *)
(* lower-cases or searches is a sequence of one-character strings.         *)
(* A continuation of an async function (the code between two awaits) is    *)
(* one action: JavaScript runs it to completion.                           *)
(***************************************************************************)
EXTENDS Integers, Sequences, FiniteSets

\* Bound of the model: the longest list the profile query returns.
MaxProfiles == 2

VARIABLES
    shelters,       \* useState<any[]>([])
    loading,        \* useState(true)
    error,          \* useState<string | null>(null)
    searchQuery,    \* useState<string>("")
    initialized,    \* useState(false)
    hydrated,       \* useState(false)
    formData,       \* useState({shelter_type, rating, free_places, location})
    lastDeps,       \* the [hydrated, initialized] the fetch effect last ran with; {} before mount
    unmounted,      \* the component has been torn down
    pc,             \* where fetchShelters is: "idle", "profiles", "enrich", "done"
    workers,        \* the per-profile async callbacks handed to Promise.all
    repair,         \* fixMissingShelterDetails(): "none", "pending", "resolved", "rejected"
    profilesReply,  \* history: the profile query's reply; {} before it arrives
    issued,         \* history: the kinds of backend request issued so far
    fetchCalls,     \* history: the number of fetchShelters() calls
    overtook        \* history: a callback settled while an earlier profile's was pending

pageVars == <<shelters, loading, error, initialized>>
userVars == <<searchQuery, formData>>
fetchVars == <<pc, workers, repair, profilesReply, issued, fetchCalls, overtook>>
vars == <<shelters, loading, error, searchQuery, initialized, hydrated, formData,
          lastDeps, unmounted, pc, workers, repair, profilesReply, issued, fetchCalls, overtook>>

---------------------------------------------------------------------------
\* JavaScript values

Null == {}
Some(v) == {v}
Val(o) == CHOOSE v \in o : TRUE

\* a || b, for an operand whose only falsy values are null and `empty`
Or(o, empty, dflt) == IF o = {} \/ o = {empty} THEN dflt ELSE Val(o)

LowerChar(c) ==
    CASE c = "A" -> "a" [] c = "B" -> "b" [] c = "C" -> "c" [] c = "D" -> "d"
      [] c = "E" -> "e" [] c = "F" -> "f" [] c = "G" -> "g" [] c = "H" -> "h"
      [] c = "I" -> "i" [] c = "J" -> "j" [] c = "K" -> "k" [] c = "L" -> "l"
      [] c = "M" -> "m" [] c = "N" -> "n" [] c = "O" -> "o" [] c = "P" -> "p"
      [] c = "Q" -> "q" [] c = "R" -> "r" [] c = "S" -> "s" [] c = "T" -> "t"
      [] c = "U" -> "u" [] c = "V" -> "v" [] c = "W" -> "w" [] c = "X" -> "x"
      [] c = "Y" -> "y" [] c = "Z" -> "z" [] OTHER -> c

\* String.prototype.toLowerCase; the receiver is evaluated before the call.
toLowerCase(s) == [str \in {s} |-> [k \in 1..Len(str) |-> LowerChar(str[k])]][s]

\* Faulty variant: an empty search string is found nowhere.
includesNonEmpty(s, t) ==
    /\ t # <<>>
    /\ \E k \in 0..(Len(s) - Len(t)) : SubSeq(s, k + 1, k + Len(t)) = t

\* String.prototype.includes; receiver and argument are evaluated before the
\* call.
includes(s, t) ==
    \E str \in {s}, searchString \in {t} :
        \E k \in 0..(Len(str) - Len(searchString)) :
            SubSeq(str, k + 1, k + Len(searchString)) = searchString

Digits == {"0", "1", "2", "3", "4", "5", "6", "7", "8", "9"}

DigitValue(c) ==
    CASE c = "0" -> 0 [] c = "1" -> 1 [] c = "2" -> 2 [] c = "3" -> 3 [] c = "4" -> 4
      [] c = "5" -> 5 [] c = "6" -> 6 [] c = "7" -> 7 [] c = "8" -> 8 [] c = "9" -> 9

RECURSIVE Decimal(_)
Decimal(s) ==
    IF s = <<>> THEN 0
    ELSE Decimal(SubSeq(s, 1, Len(s) - 1)) * 10 + DigitValue(s[Len(s)])

\* Number(string) for unsigned decimal text: "" is 0, digits are their value,
\* anything else is NaN (Null here).
Number(s) == IF \A k \in 1..Len(s) : s[k] \in Digits THEN Some(Decimal(s)) ELSE Null

\* a >= b where a is a number or null and b is a number or NaN:
\* null converts to 0, and every comparison with NaN is false.
GreaterOrEqual(a, b) == b # Null /\ (IF a = Null THEN 0 ELSE Val(a)) >= Val(b)

---------------------------------------------------------------------------
\* Backend data

sKyiv == <<"K", "y", "i", "v">>
sOasis == <<"O", "a", "s", "i", "s">>
sPaws == <<"P", "a", "w", "s">>
sUnknown == <<"U", "n", "k", "n", "o", "w", "n">>

ProfileIds == 1..MaxProfiles

\* The backend's tables, which the page only reads.  Odd profiles have an
\* address, a complete shelter_details row and two animals that are not
\* adopted; even profiles have no address, a shelter_details row with every
\* column null, and no animals.
ProfileRow(i) ==
    [id |-> i, full_name |-> Some(sPaws),
     address |-> IF i % 2 = 1 THEN Some(sKyiv) ELSE Null]

DetailRow(i) ==
    IF i % 2 = 1
    THEN [shelter_name |-> Some(sOasis), shelter_type |-> Some("vet_clinic"),
          location |-> Some(sKyiv), description |-> Some(<<>>), website |-> Some(<<>>),
          rating |-> Some(4)]
    ELSE [shelter_name |-> Null, shelter_type |-> Null, location |-> Null,
          description |-> Null, website |-> Null, rating |-> Null]

AnimalRows(i) == IF i % 2 = 1 THEN <<[id |-> 2 * i - 1], [id |-> 2 * i]>> ELSE <<>>

RECURSIVE SeqsOfDistinct(_, _)
SeqsOfDistinct(S, n) ==
    IF n = 0 THEN {<<>>}
    ELSE LET shorter == SeqsOfDistinct(S, n - 1)
         IN  shorter \cup
             { Append(s, x) : <<s, x>> \in
                 { p \in shorter \X S : \A k \in 1..Len(p[1]) : p[1][k] # p[2] } }

\* What profiles.select().order() may resolve to: any list of distinct profiles.
ProfileLists ==
    { [k \in 1..Len(s) |-> ProfileRow(s[k])] : s \in SeqsOfDistinct(ProfileIds, MaxProfiles) }

\* A reply of the query client: the awaited promise rejects (thrown), or resolves
\* to {data, error}.
Reply(thrown, err, data) == [thrown |-> thrown, error |-> err, data |-> data]

ProfileReplies ==
    { Reply(TRUE, FALSE, Null), Reply(FALSE, TRUE, Null), Reply(FALSE, FALSE, Null) }
    \cup { Reply(FALSE, FALSE, Some(l)) : l \in ProfileLists }

\* shelter_details...eq("profile_id", id).single(): rejects, or resolves to an
\* error without data (also when there is no row), or to the row.
DetailReplies(id) ==
    { Reply(TRUE, FALSE, Null), Reply(FALSE, TRUE, Null), Reply(FALSE, FALSE, Some(DetailRow(id))) }

\* animals...eq("shelter_id", id).eq("is_adopted", false)
CountReplies(id) ==
    { Reply(TRUE, FALSE, Null), Reply(FALSE, TRUE, Null), Reply(FALSE, FALSE, Some(AnimalRows(id))) }

ReplyKind(r) ==
    IF r.thrown THEN "throw" ELSE IF r.error THEN "error"
    ELSE IF r.data = Null THEN "nodata" ELSE "data"

---------------------------------------------------------------------------
\* The page

ErrorMessage == "Failed to load shelters. Please try again."

Init ==
    /\ shelters = <<>>
    /\ loading = TRUE
    /\ error = Null
    /\ searchQuery = <<>>
    /\ initialized = FALSE
    /\ hydrated = FALSE
    /\ formData = [shelter_type |-> "", rating |-> <<>>, free_places |-> "", location |-> <<>>]
    /\ lastDeps = Null
    /\ unmounted = FALSE
    /\ pc = "idle"
    /\ workers = <<>>
    /\ repair = "none"
    /\ profilesReply = Null
    /\ issued = {}
    /\ fetchCalls = 0
    /\ overtook = FALSE

mounted == lastDeps # Null /\ ~unmounted

\* The continuation after Promise.all is a microtask: once the promise is
\* settled it runs before any other event is handled.
AllFulfilled == \A k \in DOMAIN workers : workers[k].promise = "fulfilled"
AnyRejected == \E k \in DOMAIN workers : workers[k].promise = "rejected"
JoinReady == pc = "enrich" /\ (AllFulfilled \/ AnyRejected)

\* fetchShelters up to its first await.
fetchShelters ==
    /\ loading' = TRUE
    /\ error' = Null
    /\ repair' = "pending"
    /\ pc' = "profiles"
    /\ issued' = issued \cup {"profiles"}
    /\ fetchCalls' = fetchCalls + 1
    /\ UNCHANGED <<shelters, initialized, workers, profilesReply, overtook>>

\* Faulty variant: the effect has no dependency array and runs after every render.
EffectEveryRender == TRUE

\* useEffect(..., [hydrated, initialized]) runs after a render whose
\* dependencies differ from those of the render it last ran after.
EffectDue == lastDeps # Some(<<hydrated, initialized>>)

\* The first commit: both effects run with the initial state in their closures.
Mount ==
    /\ lastDeps = Null
    /\ ~unmounted
    /\ hydrated' = TRUE
    /\ lastDeps' = Some(<<hydrated, initialized>>)
    /\ UNCHANGED <<pageVars, userVars, unmounted, fetchVars>>

\* A later render and its effects.
Render ==
    /\ mounted
    /\ ~JoinReady
    /\ IF EffectDue
       THEN /\ lastDeps' = Some(<<hydrated, initialized>>)
            /\ UNCHANGED <<hydrated, unmounted, userVars>>
            /\ IF hydrated /\ ~initialized
               THEN fetchShelters
               ELSE UNCHANGED <<pageVars, fetchVars>>
       ELSE UNCHANGED vars

\* A state setter called after the component was torn down changes nothing:
\* React drops the update.
WhileMounted(update) == IF unmounted THEN UNCHANGED pageVars ELSE update

\* Faulty variant: the catch without the finally block.
CatchNoFinally ==
    /\ error' = Some(ErrorMessage)
    /\ initialized' = TRUE
    /\ UNCHANGED <<shelters, loading>>

\* catch (err) { setError(...); setInitialized(true) } finally { setLoading(false) }
CatchFinally ==
    /\ error' = Some(ErrorMessage)
    /\ initialized' = TRUE
    /\ loading' = FALSE
    /\ UNCHANGED shelters

\* Faulty variant: the error of the profile query is never looked at.
ProfilesErrorIgnored(reply) == FALSE

\* if (profilesError) throw profilesError
ProfilesFailed(reply) == reply.error

\* Faulty variant: the test without its !profilesData half.
NoProfilesLengthOnly(data) == data # Null /\ Len(Val(data)) = 0

\* if (!profilesData || profilesData.length === 0)
NoProfiles(data) == data = Null \/ Len(Val(data)) = 0

\* A profile's async callback up to its first await.
StartWorker(profile) ==
    [profile |-> profile, pc |-> "detail", detailReply |-> "none", shelterDetails |-> Null,
     countReply |-> "none", animalCount |-> Null, promise |-> "pending", value |-> Null]

ProfilesReply(reply) ==
    /\ pc = "profiles"
    /\ profilesReply' = Some(reply)
    /\ UNCHANGED <<hydrated, lastDeps, unmounted, userVars, repair, fetchCalls, overtook>>
    /\ IF reply.thrown \/ ProfilesFailed(reply)
       THEN WhileMounted(CatchFinally) /\ pc' = "done" /\ UNCHANGED <<workers, issued>>
       ELSE IF NoProfiles(reply.data)
       THEN /\ WhileMounted(/\ shelters' = <<>>
                            /\ loading' = FALSE
                            /\ initialized' = TRUE
                            /\ UNCHANGED error)
            /\ pc' = "done"
            /\ UNCHANGED <<workers, issued>>
       ELSE IF reply.data = Null
       THEN WhileMounted(CatchFinally) /\ pc' = "done" /\ UNCHANGED <<workers, issued>>
       ELSE LET profilesData == Val(reply.data)
            IN  /\ workers' = [k \in 1..Len(profilesData) |-> StartWorker(profilesData[k])]
                /\ issued' = issued \cup (IF Len(profilesData) > 0 THEN {"detail"} ELSE {})
                /\ pc' = "enrich"
                /\ UNCHANGED pageVars

\* Faulty variant: the default object without its shelter_type.
DefaultDetailsNoType(profile) ==
    [shelter_name |-> profile.full_name, shelter_type |-> Null,
     location |-> Some(Or(profile.address, <<>>, sUnknown)),
     description |-> Some(<<>>), website |-> Some(<<>>), rating |-> Null]

\* The default shelter_details object of lines 101-107 and 118-124.
DefaultDetails(profile) ==
    [shelter_name |-> profile.full_name, shelter_type |-> Some("animal_shelter"),
     location |-> Some(Or(profile.address, <<>>, sUnknown)),
     description |-> Some(<<>>), website |-> Some(<<>>), rating |-> Null]

\* Faulty variant: shelter_details without the default for a missing row.
EnrichNoDefault(profile, shelterDetails, animalCount) ==
    [id |-> profile.id, full_name |-> profile.full_name, address |-> profile.address,
     shelter_details |-> shelterDetails,
     animals_count |-> IF animalCount = Null THEN 0 ELSE Len(Val(animalCount))]

\* return { ...profile, shelter_details: shelterDetails || {...}, animals_count: animalCount?.length || 0 }
Enrich(profile, shelterDetails, animalCount) ==
    [id |-> profile.id, full_name |-> profile.full_name, address |-> profile.address,
     shelter_details |-> IF shelterDetails = Null THEN Some(DefaultDetails(profile))
                         ELSE shelterDetails,
     animals_count |-> IF animalCount = Null THEN 0 ELSE Len(Val(animalCount))]

WorkerReturn(w, value) ==
    [w EXCEPT !.pc = "settled", !.promise = "fulfilled", !.value = Some(value)]

\* Faulty variant: the callback without its try/catch, so its promise rejects.
OnDetailsErrorRethrow(w) == [w EXCEPT !.pc = "settled", !.promise = "rejected"]

\* catch (detailsError) { ...; return { ...profile, shelter_details: {...}, animals_count: 0 } }
OnDetailsError(w) == WorkerReturn(w, Enrich(w.profile, Null, Null))

Overtakes(k) == \E j \in 1..(k - 1) : workers[j].promise = "pending"

DetailReply(k, reply) ==
    /\ pc = "enrich"
    /\ ~JoinReady
    /\ workers[k].pc = "detail"
    /\ LET w == [workers[k] EXCEPT !.detailReply = ReplyKind(reply)]
       IN  IF reply.thrown
           THEN /\ workers' = [workers EXCEPT ![k] = OnDetailsError(w)]
                /\ overtook' = (overtook \/ Overtakes(k))
                /\ UNCHANGED issued
           ELSE /\ workers' = [workers EXCEPT
                                 ![k] = [w EXCEPT !.shelterDetails = reply.data, !.pc = "count"]]
                /\ issued' = issued \cup {"count"}
                /\ UNCHANGED overtook
    /\ UNCHANGED <<pageVars, hydrated, lastDeps, unmounted, userVars, pc, repair, profilesReply, fetchCalls>>

\* Faulty variant: each callback publishes its record as soon as it has it.
CountReplyPublishes(k, reply) ==
    /\ pc = "enrich"
    /\ ~JoinReady
    /\ workers[k].pc = "count"
    /\ LET w == [workers[k] EXCEPT !.countReply = ReplyKind(reply)]
           done == IF reply.thrown THEN OnDetailsError(w)
                   ELSE WorkerReturn([w EXCEPT !.animalCount = reply.data],
                                     Enrich(w.profile, w.shelterDetails, reply.data))
       IN  /\ workers' = [workers EXCEPT ![k] = done]
           /\ shelters' = Append(shelters, Val(done.value))
    /\ overtook' = (overtook \/ Overtakes(k))
    /\ UNCHANGED <<loading, error, initialized, hydrated, lastDeps, unmounted, userVars, pc, repair,
                   profilesReply, issued, fetchCalls>>

CountReply(k, reply) ==
    /\ pc = "enrich"
    /\ ~JoinReady
    /\ workers[k].pc = "count"
    /\ LET w == [workers[k] EXCEPT !.countReply = ReplyKind(reply)]
       IN  workers' = [workers EXCEPT
                         ![k] = IF reply.thrown THEN OnDetailsError(w)
                                ELSE WorkerReturn([w EXCEPT !.animalCount = reply.data],
                                                  Enrich(w.profile, w.shelterDetails, reply.data))]
    /\ overtook' = (overtook \/ Overtakes(k))
    /\ UNCHANGED <<pageVars, hydrated, lastDeps, unmounted, userVars, pc, repair, profilesReply,
                   issued, fetchCalls>>

\* Faulty variant: the values collected last-first.
sheltersReversed(ws) == [k \in 1..Len(ws) |-> Val(ws[Len(ws) + 1 - k].value)]

\* What Promise.all resolves to: the callbacks' values, in the order of the input.
sheltersWithDetails(ws) == [k \in 1..Len(ws) |-> Val(ws[k].value)]

\* The continuation after await Promise.all(...), or the catch when it rejects.
Join ==
    /\ JoinReady
    /\ IF AnyRejected
       THEN WhileMounted(CatchFinally)
       ELSE WhileMounted(/\ shelters' = sheltersWithDetails(workers)
                         /\ initialized' = TRUE
                         /\ loading' = FALSE
                         /\ UNCHANGED error)
    /\ pc' = "done"
    /\ workers' = <<>>
    /\ overtook' = FALSE
    /\ UNCHANGED <<hydrated, lastDeps, unmounted, userVars, repair, profilesReply, issued, fetchCalls>>

\* Faulty variant: the repair is awaited inside the try block, so its rejection
\* reaches the catch of fetchShelters.
RepairSettlesAwaited(ok) ==
    /\ repair = "pending"
    /\ ~JoinReady
    /\ repair' = IF ok THEN "resolved" ELSE "rejected"
    /\ IF ok THEN UNCHANGED <<pageVars, pc, workers>>
       ELSE WhileMounted(CatchFinally) /\ pc' = "done" /\ workers' = <<>>
    /\ UNCHANGED <<hydrated, lastDeps, unmounted, userVars, profilesReply, issued, fetchCalls, overtook>>

\* fixMissingShelterDetails() settles; a rejection is only logged.
RepairSettles(ok) ==
    /\ repair = "pending"
    /\ ~JoinReady
    /\ repair' = IF ok THEN "resolved" ELSE "rejected"
    /\ UNCHANGED <<pageVars, hydrated, lastDeps, unmounted, userVars, pc, workers, profilesReply,
                   issued, fetchCalls, overtook>>

\* Faulty variant: a cleanup that aborts the fetch in flight.
UnmountAborts ==
    /\ mounted
    /\ ~JoinReady
    /\ unmounted' = TRUE
    /\ pc' = IF pc \in {"profiles", "enrich"} THEN "done" ELSE pc
    /\ workers' = <<>>
    /\ overtook' = FALSE
    /\ UNCHANGED <<pageVars, userVars, hydrated, lastDeps, repair, profilesReply,
                   issued, fetchCalls>>

\* The component is torn down.  Neither effect returns a cleanup, so nothing
\* of the fetch in flight is touched.
Unmount ==
    /\ mounted
    /\ ~JoinReady
    /\ unmounted' = TRUE
    /\ UNCHANGED <<pageVars, userVars, hydrated, lastDeps, fetchVars>>

---------------------------------------------------------------------------
\* The user

Queries == { <<>>, <<"k", "Y">> }
TypeOptions == { "", "animal_shelter", "vet_clinic" }
RatingOptions == { <<>>, <<"0">>, <<"4">> }
FreePlacesOptions == { "", "yes" }
LocationOptions == { <<>>, <<"I", "V">> }

FieldOptions(name) ==
    CASE name = "shelter_type" -> TypeOptions
      [] name = "rating" -> RatingOptions
      [] name = "free_places" -> FreePlacesOptions
      [] name = "location" -> LocationOptions

\* SearchShelters is rendered whatever the state.
SetSearchQuery(q) ==
    /\ mounted
    /\ ~JoinReady
    /\ searchQuery' = q
    /\ UNCHANGED <<pageVars, hydrated, formData, lastDeps, unmounted, fetchVars>>

\* ShelterFilters is rendered only when loading is false.
handleChange(name, value) ==
    /\ mounted
    /\ ~JoinReady
    /\ ~loading
    /\ formData' = [formData EXCEPT ![name] = value]
    /\ UNCHANGED <<pageVars, hydrated, searchQuery, lastDeps, unmounted, fetchVars>>

---------------------------------------------------------------------------
\* filteredShelters

\* const details = shelter.shelter_details || {}
DetailsOf(shelter) ==
    IF shelter.shelter_details = Null
    THEN [shelter_name |-> Null, shelter_type |-> Null, location |-> Null,
          description |-> Null, website |-> Null, rating |-> Null]
    ELSE Val(shelter.shelter_details)

nameMatch(shelter) ==
    LET details == DetailsOf(shelter)
        shelterName == Or(details.shelter_name, <<>>, <<>>)
    IN  includes(toLowerCase(shelterName), toLowerCase(searchQuery))

locationMatch(shelter) ==
    LET details == DetailsOf(shelter)
        shelterLocation == Or(details.location, <<>>, <<>>)
    IN  includes(toLowerCase(shelterLocation), toLowerCase(searchQuery))

typeMatch(shelter) ==
    LET details == DetailsOf(shelter)
        shelterType == Or(details.shelter_type, "", "")
    IN  formData.shelter_type = "" \/ shelterType = formData.shelter_type

\* Faulty variant: a shelter without a rating passes every rating filter.
ratingMatchUnratedPass(shelter) ==
    LET details == DetailsOf(shelter)
        shelterRating == details.rating
    IN  formData.rating = <<>> \/ shelterRating = Null
        \/ GreaterOrEqual(shelterRating, Number(formData.rating))

ratingMatch(shelter) ==
    LET details == DetailsOf(shelter)
        shelterRating == details.rating
    IN  formData.rating = <<>> \/ GreaterOrEqual(shelterRating, Number(formData.rating))

locationFilterMatch(shelter) ==
    LET details == DetailsOf(shelter)
        shelterLocation == Or(details.location, <<>>, <<>>)
    IN  formData.location = <<>>
        \/ includes(toLowerCase(shelterLocation), toLowerCase(formData.location))

\* Faulty variant: the name and the location must both match the query.
ShelterFilterBothText(shelter) ==
    /\ nameMatch(shelter) /\ locationMatch(shelter)
    /\ typeMatch(shelter)
    /\ ratingMatch(shelter)
    /\ locationFilterMatch(shelter)

\* Faulty variant: free_places is applied, keeping shelters without animals.
ShelterFilterFreePlaces(shelter) ==
    /\ nameMatch(shelter) \/ locationMatch(shelter)
    /\ typeMatch(shelter)
    /\ ratingMatch(shelter)
    /\ locationFilterMatch(shelter)
    /\ formData.free_places = "" \/ shelter.animals_count = 0

\* The predicate of shelters.filter(...).
ShelterFilter(shelter) ==
    /\ nameMatch(shelter) \/ locationMatch(shelter)
    /\ typeMatch(shelter)
    /\ ratingMatch(shelter)
    /\ locationFilterMatch(shelter)

\* Faulty variant: the scan starts at the second element.
filterFromSecond(list) ==
    IF list = <<>> THEN <<>> ELSE SelectSeq(Tail(list), ShelterFilter)

\* list.filter(predicate), with the current query and criteria
filterShelters(list) == SelectSeq(list, ShelterFilter)

filteredShelters == filterShelters(shelters)

---------------------------------------------------------------------------
\* Specifications

Next ==
    \/ Mount
    \/ Render
    \/ \E reply \in ProfileReplies : ProfilesReply(reply)
    \/ \E k \in DOMAIN workers :
          \E reply \in DetailReplies(workers[k].profile.id) : DetailReply(k, reply)
    \/ \E k \in DOMAIN workers :
          \E reply \in CountReplies(workers[k].profile.id) : CountReply(k, reply)
    \/ Join
    \/ \E ok \in BOOLEAN : RepairSettles(ok)
    \/ \E q \in Queries : SetSearchQuery(q)
    \/ \E name \in DOMAIN formData : \E value \in FieldOptions(name) : handleChange(name, value)

Spec == Init /\ [][Next]_vars

\* The page's life with its teardown.
NextTeardown ==
    \/ Next
    \/ Unmount

TeardownSpec == Init /\ [][NextTeardown]_vars

\* A step of the page itself or of the backend, as opposed to one of the user
\* or of the repair job.
Progress ==
    \/ Mount
    \/ Render
    \/ \E reply \in ProfileReplies : ProfilesReply(reply)
    \/ \E k \in DOMAIN workers :
          \E reply \in DetailReplies(workers[k].profile.id) : DetailReply(k, reply)
    \/ \E k \in DOMAIN workers :
          \E reply \in CountReplies(workers[k].profile.id) : CountReply(k, reply)
    \/ Join

\* Every backend request eventually returns or fails, and React eventually
\* commits and runs its effects: the page and the backend do not stop while
\* one of their steps is possible.
FairSpec == Spec /\ WF_vars(Progress)

---------------------------------------------------------------------------
\* Claims about fetchShelters

\* The step in which the continuation after Promise.all (or the catch) runs.
JoinStep == pc = "enrich" /\ pc' = "done"

\* The list the profile query returned.
QueriedProfiles == Val(Val(profilesReply).data)

LookupFailed(kind) == kind \in {"error", "throw"}

NoLookupFailed == \A k \in DOMAIN workers :
    workers[k].detailReply = "data" /\ workers[k].countReply = "data"

\* C1: when the profile query returns N profiles and no detail or count lookup
\* fails, the join writes exactly N records to shelters, the k-th being the k-th
\* profile of the query merged with its detail row and the number of its animal
\* rows, in whatever order the lookups completed.
C1_EnrichedInQueryOrder ==
    [][ (JoinStep /\ NoLookupFailed) =>
            /\ Len(shelters') = Len(QueriedProfiles)
            /\ \A k \in 1..Len(QueriedProfiles) :
                 /\ shelters'[k].id = QueriedProfiles[k].id
                 /\ shelters'[k].full_name = QueriedProfiles[k].full_name
                 /\ shelters'[k].shelter_details = workers[k].shelterDetails
                 /\ shelters'[k].animals_count = Len(Val(workers[k].animalCount)) ]_vars

\* C1 witness: every lookup of a full-length list succeeded, a later profile's
\* callback having settled before an earlier one's; the join is the next step.
C1_Witness ==
    /\ JoinReady
    /\ Len(workers) = MaxProfiles
    /\ NoLookupFailed
    /\ overtook
    /\ \E k \in DOMAIN workers : workers[k].profile.id # k

\* C2: once fetchShelters has finished after a failed profile query (an error
\* result or an exception), error is set, shelters is empty, loading is false and
\* no detail or count request was issued.
C2_ProfileFailureIsEmptyError ==
    (pc = "done" /\ LookupFailed(ReplyKind(Val(profilesReply)))) =>
        /\ error # Null
        /\ shelters = <<>>
        /\ loading = FALSE
        /\ initialized = TRUE
        /\ issued = {"profiles"}

\* C2 witness: fetchShelters finished after the profile query returned an error result.
C2_Witness ==
    /\ pc = "done"
    /\ ReplyKind(Val(profilesReply)) = "error"
    /\ error = Some(ErrorMessage)

\* C3 as stated: a profile whose detail lookup failed, by an error result or by
\* an exception, appears in shelters with the default shelter_type and
\* animals_count 0.
C3_AsStated ==
    [][ JoinStep =>
          \A k \in DOMAIN workers :
              LookupFailed(workers[k].detailReply) =>
                  /\ k <= Len(shelters')
                  /\ shelters'[k].id = workers[k].profile.id
                  /\ Val(shelters'[k].shelter_details).shelter_type = Some("animal_shelter")
                  /\ shelters'[k].animals_count = 0 ]_vars

\* C3 amended: such a profile appears in shelters with the default
\* shelter_type; its animals_count is 0 when the lookup raised an exception,
\* and after an error result it is the number of rows the count query
\* returned (0 when that query returned no data or raised).
C3_FailedDetailDefaulted ==
    [][ JoinStep =>
          \A k \in DOMAIN workers :
              LookupFailed(workers[k].detailReply) =>
                  /\ k <= Len(shelters')
                  /\ shelters'[k].id = workers[k].profile.id
                  /\ Val(shelters'[k].shelter_details).shelter_type = Some("animal_shelter")
                  /\ shelters'[k].animals_count =
                        IF workers[k].detailReply = "throw" \/ workers[k].animalCount = Null
                        THEN 0
                        ELSE Len(Val(workers[k].animalCount)) ]_vars

\* C3 witness: one detail lookup returned an error result and its count query
\* returned rows, another raised; the join is the next step.
C3_Witness ==
    /\ JoinReady
    /\ \E k \in DOMAIN workers :
          /\ workers[k].detailReply = "error"
          /\ workers[k].animalCount # Null
          /\ Len(Val(workers[k].animalCount)) > 0
    /\ \E k \in DOMAIN workers : workers[k].detailReply = "throw"

\* C4: whatever lookups failed and in whatever order they completed, the join
\* of a non-empty batch leaves error null, initialized true, loading false and
\* a record for every profile of the query, in order.
C4_FailuresNeverAbort ==
    [][ JoinStep =>
          /\ error' = Null
          /\ initialized' = TRUE
          /\ loading' = FALSE
          /\ Len(shelters') = Len(QueriedProfiles)
          /\ \A k \in 1..Len(QueriedProfiles) : shelters'[k].id = QueriedProfiles[k].id ]_vars

\* C4 witness: in a full-length batch some lookup raised, some count query
\* failed, and a later callback settled before an earlier one.
C4_Witness ==
    /\ JoinReady
    /\ Len(workers) = MaxProfiles
    /\ overtook
    /\ \E k \in DOMAIN workers : workers[k].detailReply = "throw"
    /\ \E k \in DOMAIN workers : LookupFailed(workers[k].countReply)

---------------------------------------------------------------------------
\* Claims about filteredShelters

InFiltered(shelter) ==
    LET filtered == filteredShelters
    IN  \E j \in 1..Len(filtered) : filtered[j] = shelter

Unrated(shelter) == DetailsOf(shelter).rating = Null

TextOf(o) == IF o = Null THEN <<>> ELSE Val(o)

SameLetter(a, b) == LowerChar(a) = LowerChar(b)

\* needle occurs in hay, letter case ignored
ContainsIgnoringCase(hay, needle) ==
    \E i \in 1..(Len(hay) + 1) :
        /\ i + Len(needle) - 1 <= Len(hay)
        /\ \A j \in 1..Len(needle) : SameLetter(hay[i + j - 1], needle[j])

TextCriterion(shelter) ==
    \/ ContainsIgnoringCase(TextOf(DetailsOf(shelter).shelter_name), searchQuery)
    \/ ContainsIgnoringCase(TextOf(DetailsOf(shelter).location), searchQuery)

TypeCriterion(shelter) ==
    \/ formData.shelter_type = ""
    \/ DetailsOf(shelter).shelter_type = Some(formData.shelter_type)

LocationCriterion(shelter) ==
    \/ formData.location = <<>>
    \/ ContainsIgnoringCase(TextOf(DetailsOf(shelter).location), formData.location)

\* The selected minimum rating, for the digit strings the form offers.
SelectedMinimum == Val(Number(formData.rating))

\* C5 as stated: whenever formData.rating is non-empty, no shelter without a
\* rating is in filteredShelters.
C5_AsStated ==
    \A k \in 1..Len(shelters) :
        (Unrated(shelters[k]) /\ formData.rating # <<>>) => ~InFiltered(shelters[k])

\* C5 amended: whenever formData.rating is non-empty and converts to a number
\* greater than 0, no shelter without a rating is in filteredShelters, whatever
\* its name and location.
C5_UnratedExcludedAbovePositiveMinimum ==
    \A k \in 1..Len(shelters) :
        ( /\ Unrated(shelters[k])
          /\ formData.rating # <<>>
          /\ Number(formData.rating) # Null
          /\ SelectedMinimum > 0 ) => ~InFiltered(shelters[k])

\* C5 witness: an unrated shelter that matches a non-empty query and every
\* other criterion, with a positive minimum rating selected.
C5_Witness ==
    \E k \in 1..Len(shelters) :
        /\ Unrated(shelters[k])
        /\ formData.rating = <<"4">>
        /\ searchQuery # <<>>
        /\ formData.location # <<>>
        /\ TextCriterion(shelters[k])
        /\ TypeCriterion(shelters[k])
        /\ LocationCriterion(shelters[k])

\* C6 as stated: a shelter is in filteredShelters exactly when the text, type,
\* rating and location criteria all hold, the rating criterion holding when it
\* is empty or the shelter has a rating that is at least the selected minimum.
C6_AsStated ==
    \A k \in 1..Len(shelters) :
        InFiltered(shelters[k]) <=>
            /\ TextCriterion(shelters[k])
            /\ TypeCriterion(shelters[k])
            /\ \/ formData.rating = <<>>
               \/ /\ ~Unrated(shelters[k])
                  /\ Val(DetailsOf(shelters[k]).rating) >= SelectedMinimum
            /\ LocationCriterion(shelters[k])

\* C6 amended: as stated, except that in the rating criterion a shelter
\* without a rating counts as rated 0.
C6_FilterIsConjunctionOfCriteria ==
    \A k \in 1..Len(shelters) :
        InFiltered(shelters[k]) <=>
            /\ TextCriterion(shelters[k])
            /\ TypeCriterion(shelters[k])
            /\ \/ formData.rating = <<>>
               \/ (IF Unrated(shelters[k]) THEN 0 ELSE Val(DetailsOf(shelters[k]).rating))
                     >= SelectedMinimum
            /\ LocationCriterion(shelters[k])

\* C6 witness: of two shelters one passes and one does not, with a query
\* matched by location only and a rating and a location criterion selected.
C6_Witness ==
    /\ Len(shelters) = 2
    /\ Len(filteredShelters) = 1
    /\ searchQuery # <<>>
    /\ formData.rating # <<>>
    /\ formData.location # <<>>
    /\ ~nameMatch(filteredShelters[1])

---------------------------------------------------------------------------
\* Claims about the page's state

\* C7: every element of shelters has a shelter_details object and a
\* non-negative integer animals_count.
C7_EnrichedWellFormed ==
    \A k \in 1..Len(shelters) :
        /\ shelters[k].shelter_details # Null
        /\ shelters[k].animals_count \in Nat

\* C7 witness: shelters holds a record with the substituted default and count 0
\* and a record with a detail row and a positive count.
C7_Witness ==
    /\ \E k \in 1..Len(shelters) :
          /\ shelters[k].shelter_details = Some(DefaultDetails(shelters[k]))
          /\ shelters[k].animals_count = 0
    /\ \E k \in 1..Len(shelters) :
          /\ shelters[k].shelter_details = Some(DetailRow(shelters[k].id))
          /\ shelters[k].animals_count > 0

\* C8: fetchShelters is called only when hydrated is true, initialized is false,
\* and no call was made before: never while one is in flight, never after one
\* has finished.
C8_FetchStartedAtMostOnce ==
    [][ fetchCalls' # fetchCalls =>
            /\ hydrated
            /\ ~initialized
            /\ pc = "idle"
            /\ fetchCalls = 0
            /\ fetchCalls' = 1 ]_vars

\* C8 witness: the fetch ended in error, the effect has run again with
\* initialized true, the user has edited the query and a filter, and there was
\* one call.
C8_Witness ==
    /\ pc = "done"
    /\ error # Null
    /\ lastDeps = Some(<<TRUE, TRUE>>)
    /\ searchQuery # <<>>
    /\ formData.shelter_type # ""
    /\ fetchCalls = 1

\* C9: with every request eventually answered, a started fetch reaches
\* initialized true and loading false, and from then on loading stays false.
C9_LoadingRetracted ==
    /\ (pc # "idle") ~> (initialized /\ ~loading)
    /\ [][ (initialized /\ ~loading) => ~loading' ]_vars

\* C9 witness: the fetch finished through the catch after the profile query
\* raised, with the indicator retracted.
C9_Witness ==
    /\ pc = "done"
    /\ ReplyKind(Val(profilesReply)) = "throw"
    /\ initialized
    /\ ~loading

NoProfilesReturned ==
    /\ profilesReply # Null
    /\ ReplyKind(Val(profilesReply)) \in {"nodata", "data"}
    /\ Val(profilesReply).data = Null \/ QueriedProfiles = <<>>

\* C10: once fetchShelters has finished after the profile query returned no
\* data or an empty list, shelters is empty, error is null, loading is false,
\* initialized is true and only the profile query was issued.
C10_NoProfilesIsEmptyNotError ==
    (pc = "done" /\ NoProfilesReturned) =>
        /\ shelters = <<>>
        /\ error = Null
        /\ loading = FALSE
        /\ initialized = TRUE
        /\ issued = {"profiles"}

\* C10 witness: fetchShelters finished after the query returned no data.
C10_Witness ==
    /\ pc = "done"
    /\ profilesReply = Some(Reply(FALSE, FALSE, Null))
    /\ initialized

---------------------------------------------------------------------------
\* Claims about the repair job

\* The record a profile's callback owes, from the backend's answers alone.
ExpectedRecord(w) ==
    LET raised == w.detailReply = "throw" \/ w.countReply = "throw"
    IN  [id |-> w.profile.id, full_name |-> w.profile.full_name, address |-> w.profile.address,
         shelter_details |->
             IF raised \/ w.shelterDetails = Null THEN Some(DefaultDetails(w.profile))
             ELSE w.shelterDetails,
         animals_count |->
             IF raised \/ w.animalCount = Null THEN 0 ELSE Len(Val(w.animalCount))]

\* <<shelters, loading, error, initialized>> at the end of fetchShelters, from
\* the answers of the profile, detail and count queries alone.
ExpectedOutcome(reply, ws) ==
    IF reply.thrown \/ reply.error
    THEN <<<<>>, FALSE, Some(ErrorMessage), TRUE>>
    ELSE IF reply.data = Null
    THEN <<<<>>, FALSE, Null, TRUE>>
    ELSE <<[k \in 1..Len(ws) |-> ExpectedRecord(ws[k])], FALSE, Null, TRUE>>

\* C11: the repair is started once, in the step that issues the profile query;
\* its settling changes nothing of the page or of the fetch; and the values
\* fetchShelters ends with are those the backend's answers determine, whatever
\* the state of the repair.
C11_RepairNeverAffectsFetch ==
    /\ [][ repair' # repair =>
             IF repair = "none"
             THEN repair' = "pending" /\ fetchCalls = 0 /\ "profiles" \in issued'
             ELSE /\ repair = "pending"
                  /\ UNCHANGED <<pageVars, pc, workers, profilesReply, issued>> ]_vars
    /\ [][ (pc # "done" /\ pc' = "done") =>
             pageVars' = ExpectedOutcome(Val(profilesReply'), workers) ]_vars

\* C11 witness: fetchShelters ended with a full list while the repair had
\* still not settled.
C11_Witness ==
    /\ pc = "done"
    /\ repair = "pending"
    /\ Len(shelters) = MaxProfiles
    /\ error = Null

---------------------------------------------------------------------------
\* Further claims about filteredShelters

\* C12: filtering the filtered list again, with the same query and criteria,
\* gives the filtered list.
C12_FilterIdempotent ==
    filterShelters(filterShelters(shelters)) = filterShelters(shelters)

\* C12 witness: a type criterion keeps one of two shelters.
C12_Witness ==
    /\ Len(shelters) = 2
    /\ Len(filteredShelters) = 1
    /\ formData.shelter_type # ""
    /\ searchQuery = <<>>

\* C15: a step that changes formData.free_places changes no other field of
\* formData, nothing else of the page, and not filteredShelters.
C15_FreePlacesIsDead ==
    [][ formData'.free_places # formData.free_places =>
            /\ formData' = [formData EXCEPT !.free_places = formData'.free_places]
            /\ UNCHANGED <<pageVars, searchQuery, hydrated>>
            /\ filteredShelters' = filteredShelters ]_vars

\* C15 witness: free_places is set while a rating criterion keeps one of two
\* shelters.
C15_Witness ==
    /\ formData.free_places # ""
    /\ formData.rating # <<>>
    /\ Len(shelters) = 2
    /\ Len(filteredShelters) = 1

EmptyCriteria ==
    /\ searchQuery = <<>>
    /\ formData = [shelter_type |-> "", rating |-> <<>>, free_places |-> "", location |-> <<>>]

\* C16: with an empty query and every criterion empty, filteredShelters is
\* shelters.
C16_NoCriteriaShowsAll ==
    EmptyCriteria => filteredShelters = shelters

\* C16 witness: nothing is selected and shelters holds two records, one of
\* them with no name, location, type or rating.
C16_Witness ==
    /\ EmptyCriteria
    /\ Len(shelters) = 2
    /\ \E k \in 1..Len(shelters) :
          /\ DetailsOf(shelters[k]).shelter_name = Null
          /\ DetailsOf(shelters[k]).location = Null
          /\ DetailsOf(shelters[k]).shelter_type = Null
          /\ DetailsOf(shelters[k]).rating = Null

---------------------------------------------------------------------------
\* Claims about the join

\* shelters is empty or holds a record for every profile of the query.
WholeBatch ==
    \/ shelters = <<>>
    \/ /\ profilesReply # Null
       /\ Val(profilesReply).data # Null
       /\ Len(shelters) = Len(QueriedProfiles)
       /\ \A k \in 1..Len(shelters) : shelters[k].id = QueriedProfiles[k].id

\* C13: shelters is never a partial list; while fetchShelters awaits a reply
\* shelters is empty and loading is true; and shelters changes only once, from
\* empty, in the step that follows the settling of every callback.
C13_JoinedBeforeComplete ==
    /\ [](WholeBatch /\ (pc \in {"profiles", "enrich"} => shelters = <<>> /\ loading))
    /\ [][ shelters' # shelters =>
             /\ shelters = <<>>
             /\ pc = "enrich"
             /\ AllFulfilled
             /\ pc' = "done" ]_vars

\* C13 witness: one callback has its record, another still awaits a reply, and
\* nothing is shown yet.
C13_Witness ==
    /\ pc = "enrich"
    /\ \E k \in DOMAIN workers : workers[k].promise = "fulfilled"
    /\ \E k \in DOMAIN workers : workers[k].promise = "pending"
    /\ shelters = <<>>
    /\ loading

---------------------------------------------------------------------------
\* Claims about teardown

=============================================================================
